---- MODULE Spec2Model ----
(***************************************************************************)
(* Model of swift/common/middleware/trivial_keymaster.py: the keymaster    *)
(* middleware (TrivialKeyMaster.__call__) and the per-request context      *)
(* (TrivialKeyMasterContext) that derives container and object keys from   *)
(* paths and resolves the crypto-id token on object GET / HEAD.            *)
(*                                                                         *)
(* Byte strings (paths, path segments) are sequences of byte values;       *)
(* header values that hold base64 text are sequences of one-character      *)
(* strings.  Python's None is the sentinel None (byte strings) or NoHeader *)
(* (header values).                                                        *)
(***************************************************************************)
EXTENDS Integers, Sequences, FiniteSets, TLC

\* ------------------------------------------------------------------------
\* Bounds of the model
\* ------------------------------------------------------------------------

\* Longest object name (in bytes) a request path carries.
MaxObjLen == 2

\* ------------------------------------------------------------------------
\* Characters and byte strings
\* ------------------------------------------------------------------------

Upper == <<"A","B","C","D","E","F","G","H","I","J","K","L","M",
           "N","O","P","Q","R","S","T","U","V","W","X","Y","Z">>

Lower == <<"a","b","c","d","e","f","g","h","i","j","k","l","m",
           "n","o","p","q","r","s","t","u","v","w","x","y","z">>

Digits == <<"0","1","2","3","4","5","6","7","8","9">>

\* The base64 alphabet of binascii (table_b2a_base64), value v at index v+1.
B64Alphabet == Upper \o Lower \o Digits \o <<"+", "/">>

IndexOf(seq, c) ==
  IF \E i \in 1..Len(seq) : seq[i] = c
    THEN CHOOSE i \in 1..Len(seq) : seq[i] = c
    ELSE 0

\* The characters header values are made of: the base64 alphabet, the pad
\* character and one character outside the alphabet.
Chars == { B64Alphabet[i] : i \in 1..Len(B64Alphabet) } \cup { "=", "!" }

\* ASCII codes.
OrdTable ==
  [c \in Chars |->
     IF IndexOf(Upper, c) > 0 THEN 64 + IndexOf(Upper, c)
     ELSE IF IndexOf(Lower, c) > 0 THEN 96 + IndexOf(Lower, c)
     ELSE IF IndexOf(Digits, c) > 0 THEN 47 + IndexOf(Digits, c)
     ELSE CASE c = "!" -> 33
            [] c = "+" -> 43
            [] c = "/" -> 47
            [] c = "=" -> 61]

\* ord(c)
Ord(c) == OrdTable[c]

\* A str literal as the byte string it is.
Str(chars) == [i \in 1..Len(chars) |-> Ord(chars[i])]

\* os.sep
sep == Str(<<"/">>)

\* Python's None where a byte string may stand.
None == << -1 >>

\* A header that is not there (_response_header_value returns None).
NoHeader == <<"None">>

\* Python truthiness of a str-or-None.
Truthy(s) == s # None /\ s # <<>>

StartsWith(s, p) == Len(s) >= Len(p) /\ SubSeq(s, 1, Len(p)) = p

EndsWith(s, p) == Len(s) >= Len(p) /\ SubSeq(s, Len(s) - Len(p) + 1, Len(s)) = p

\* posixpath.join(a, b)
join2(a, b) ==
  IF StartsWith(b, sep) THEN b
  ELSE IF a = <<>> \/ EndsWith(a, sep) THEN a \o b
  ELSE a \o sep \o b

RECURSIVE join(_, _)
\* os.path.join(a, *p)
join(a, p) ==
  IF p = <<>> THEN a ELSE join(join2(a, Head(p)), Tail(p))

RECURSIVE split(_, _, _)
\* str.split(c, maxsplit) for the one-byte separator c: at most maxsplit
\* splits, the rest of the string kept whole in the last element.
split(s, c, maxsplit) ==
  LET hit == {i \in 1..Len(s) : s[i] = c} IN
  IF maxsplit = 0 \/ hit = {} THEN << s >>
  ELSE LET i == CHOOSE j \in hit : \A k \in hit : j <= k IN
       << SubSeq(s, 1, i - 1) >> \o split(SubSeq(s, i + 1, Len(s)), c, maxsplit - 1)

\* segs[a:b] of Python (0-based, b exclusive, clipped to the list).
Slice(segs, a, b) ==
  LET hi == IF b < Len(segs) THEN b ELSE Len(segs) IN
  IF a >= hi THEN <<>> ELSE SubSeq(segs, a + 1, hi)

Contains(segs, x) == \E i \in 1..Len(segs) : segs[i] = x

\* swift.common.utils.split_path(path, minsegs, maxsegs, rest_with_last=True):
\* [ok |-> FALSE] stands for ValueError, otherwise segs holds maxsegs
\* entries, the missing ones None.
split_path(path, minsegs, maxsegs) ==
  LET segs  == split(path, sep[1], maxsegs)
      count == Len(segs)
      bad   == \/ segs[1] # <<>>
               \/ count < minsegs + 1
               \/ count > maxsegs + 1
               \/ Contains(Slice(segs, 1, minsegs + 1), <<>>)
      kept  == Slice(segs, 1, maxsegs + 1)
  IN IF bad THEN [ok |-> FALSE, segs |-> <<>>]
     ELSE [ok |-> TRUE,
           segs |-> kept \o [i \in 1..(maxsegs - Len(kept)) |-> None]]

\* ------------------------------------------------------------------------
\* base64 (Python 2 base64.b64encode / base64.b64decode over binascii)
\* ------------------------------------------------------------------------

\* 2^n for the bit widths the codec uses.
Pow2(n) == CASE n = 0 -> 1 [] n = 2 -> 4 [] n = 4 -> 16 [] n = 6 -> 64

B64Char(v) == B64Alphabet[v + 1]

\* table_a2b_base64: the value of a character, -1 for a character outside
\* the alphabet; the pad character is in the table, with value 0.
B64Table ==
  [c \in Chars |->
     IF c = "=" THEN 0
     ELSE IF IndexOf(B64Alphabet, c) > 0 THEN IndexOf(B64Alphabet, c) - 1
     ELSE -1]

B64Val(c) == B64Table[c]

RECURSIVE b64encode(_)
\* base64.b64encode(s): three bytes to four characters, the tail padded.
b64encode(s) ==
  IF Len(s) = 0 THEN <<>>
  ELSE IF Len(s) = 1 THEN
    << B64Char(s[1] \div 4), B64Char((s[1] % 4) * 16), "=", "=" >>
  ELSE IF Len(s) = 2 THEN
    << B64Char(s[1] \div 4), B64Char((s[1] % 4) * 16 + s[2] \div 16),
       B64Char((s[2] % 16) * 4), "=" >>
  ELSE
    << B64Char(s[1] \div 4), B64Char((s[1] % 4) * 16 + s[2] \div 16),
       B64Char((s[2] % 16) * 4 + s[3] \div 64), B64Char(s[3] % 64) >>
    \o b64encode(SubSeq(s, 4, Len(s)))

RECURSIVE binascii_find_valid(_, _, _)
\* binascii_find_valid: the (num+1)th character of the table from position
\* i on, "" when there is none.
binascii_find_valid(s, i, num) ==
  IF i > Len(s) THEN ""
  ELSE IF B64Val(s[i]) # -1
    THEN IF num = 0 THEN s[i] ELSE binascii_find_valid(s, i + 1, num - 1)
    ELSE binascii_find_valid(s, i + 1, num)

RECURSIVE a2b_base64(_, _, _, _, _, _)
\* binascii.a2b_base64: characters outside the alphabet are skipped, a pad
\* sequence ends the input, bits left over are "Incorrect padding"
\* ([ok |-> FALSE], binascii.Error).
a2b_base64(s, i, quad_pos, leftchar, leftbits, out) ==
  IF i > Len(s) THEN [ok |-> leftbits = 0, data |-> out]
  ELSE IF s[i] = "=" THEN
    IF \/ quad_pos < 2
       \/ (quad_pos = 2 /\ binascii_find_valid(s, i, 1) # "=")
      THEN a2b_base64(s, i + 1, quad_pos, leftchar, leftbits, out)
      ELSE [ok |-> TRUE, data |-> out]
  ELSE IF B64Val(s[i]) = -1 THEN
    a2b_base64(s, i + 1, quad_pos, leftchar, leftbits, out)
  ELSE
    LET lc == leftchar * 64 + B64Val(s[i])
        lb == leftbits + 6
    IN IF lb >= 8
         THEN a2b_base64(s, i + 1, (quad_pos + 1) % 4, lc % Pow2(lb - 8),
                         lb - 8, Append(out, (lc \div Pow2(lb - 8)) % 256))
         ELSE a2b_base64(s, i + 1, (quad_pos + 1) % 4, lc, lb, out)

\* base64.b64decode(s): [ok |-> FALSE] stands for the TypeError it raises
\* on binascii.Error.
b64decode(s) == a2b_base64(s, 1, 0, 0, 0, <<>>)

\* ------------------------------------------------------------------------
\* Key derivation and the per-request context (TrivialKeyMasterContext)
\* ------------------------------------------------------------------------

\* The request slots: each holds at most one request in flight.
Reqs == {1, 2}

\* The slot that serves requests one after the other.
Serial == {1}

VARIABLES
  root_key,   \* TrivialKeyMaster.root_key
  pc,         \* per slot: the position of the request in __call__
  env,        \* per slot: the WSGI environment (req.environ, req.headers)
  arrived,    \* per slot: the environment as the request arrived (history)
  ctx,        \* per slot: the TrivialKeyMasterContext of the request
  resp,       \* per slot: the response captured by _app_call
  seen,       \* per slot: the environment as downstream was called with it
  out,        \* per slot: the response started towards the caller
  log,        \* per slot: the steps taken so far, in order (history)
  stored      \* downstream: the object last stored by an object PUT

vars == << root_key, pc, env, arrived, ctx, resp, seen, out, log, stored >>

\* TrivialKeyMaster.create_key: HMAC_SHA256(root_key, key_id), kept symbolic:
\* two keys are equal iff root key and key id are.
create_key(root, key_id) == << "HMAC_SHA256", root, key_id >>

\* A dict as the set of its (key, value) pairs.
DictKeys(d) == {e[1] : e \in d}

DictPut(d, k, v) == {e \in d : e[1] # k} \cup {<< k, v >>}

NoCtx ==
  [account |-> None, container |-> None, obj |-> None, keys |-> {},
   account_path |-> None, container_path |-> None, obj_path |-> None,
   server_type |-> "none"]

\* init_keys with the object test beside the container test instead of
\* inside it: an object key is derived whenever there is an object segment.
init_keys_flat(root, account, container, obj) ==
  LET account_path   == join(sep, << account >>)
      container_path == IF Truthy(container) THEN join(account_path, << container >>)
                        ELSE account_path
      obj_path       == join(container_path, << obj >>)
  IN [account |-> account, container |-> container, obj |-> obj,
      keys |-> (IF Truthy(container)
                  THEN {<< "container", create_key(root, container_path) >>} ELSE {})
               \cup (IF Truthy(obj)
                       THEN {<< "object", create_key(root, obj_path) >>} ELSE {}),
      account_path |-> account_path,
      container_path |-> IF Truthy(container) THEN container_path ELSE None,
      obj_path |-> IF Truthy(obj) THEN obj_path ELSE None,
      server_type |-> IF Truthy(obj) THEN "object"
                      ELSE IF Truthy(container) THEN "container" ELSE "account"]

\* TrivialKeyMasterContext.__init__ and _init_keys: the default keys of the
\* request's own path.
init_keys(root, account, container, obj) ==
  LET account_path   == join(sep, << account >>)
      container_path == join(account_path, << container >>)
      obj_path       == join(container_path, << obj >>)
      base == [account |-> account, container |-> container, obj |-> obj,
               keys |-> {}, account_path |-> account_path,
               container_path |-> None, obj_path |-> None,
               server_type |-> "account"]
  IN IF ~Truthy(container) THEN base
     ELSE IF ~Truthy(obj) THEN
       [base EXCEPT !.server_type = "container",
                    !.container_path = container_path,
                    !.keys = {<< "container", create_key(root, container_path) >>}]
     ELSE
       [base EXCEPT !.server_type = "object",
                    !.container_path = container_path,
                    !.obj_path = obj_path,
                    !.keys = {<< "container", create_key(root, container_path) >>,
                              << "object", create_key(root, obj_path) >>}]

\* PUT, lines 78-87: the crypto-id header an object PUT sets on the request;
\* other PUTs leave the header as it is.
put_crypto_id(c, current) ==
  IF Truthy(c.obj_path) THEN b64encode(c.obj_path) ELSE current

\* resolve_keys without lines 147-149: the container key stays the one of
\* the request's own path.
resolve_keys_stale_container(root, keys, token) ==
  IF token = NoHeader \/ token = <<>> THEN [ok |-> FALSE, keys |-> keys]
  ELSE LET dec == b64decode(token) IN
    IF ~dec.ok THEN [ok |-> FALSE, keys |-> keys]
    ELSE IF ~split_path(dec.data, 3, 3).ok THEN [ok |-> FALSE, keys |-> keys]
    ELSE [ok |-> TRUE, keys |-> DictPut(keys, "object", create_key(root, dec.data))]

\* resolve_keys without lines 136-137: a missing or empty token is taken as
\* "nothing to resolve" and the default keys stand.
resolve_keys_lenient(root, keys, token) ==
  IF token = NoHeader \/ token = <<>> THEN [ok |-> TRUE, keys |-> keys]
  ELSE LET dec == b64decode(token) IN
    IF ~dec.ok THEN [ok |-> FALSE, keys |-> keys]
    ELSE LET sp == split_path(dec.data, 3, 3) IN
      IF ~sp.ok THEN [ok |-> FALSE, keys |-> keys]
      ELSE [ok |-> TRUE,
            keys |-> DictPut(DictPut(keys, "container",
                                     create_key(root, join(sep, << sp.segs[1], sp.segs[2] >>))),
                             "object", create_key(root, dec.data))]

\* resolve_keys with line 152 moved before line 145: the object key is
\* recomputed from the decoded token before split_path has accepted it, so a
\* token of the wrong shape leaves the object entry replaced and the
\* container entry not.
resolve_keys_object_first(root, keys, token) ==
  IF token = NoHeader \/ token = <<>> THEN [ok |-> FALSE, keys |-> keys]
  ELSE LET dec == b64decode(token) IN
    IF ~dec.ok THEN [ok |-> FALSE, keys |-> keys]
    ELSE LET sp == split_path(dec.data, 3, 3) IN
      IF ~sp.ok THEN [ok |-> FALSE,
                      keys |-> DictPut(keys, "object", create_key(root, dec.data))]
      ELSE [ok |-> TRUE,
            keys |-> DictPut(DictPut(keys, "container",
                                     create_key(root, join(sep, << sp.segs[1], sp.segs[2] >>))),
                             "object", create_key(root, dec.data))]

\* provide_keys_get_or_head, lines 132-153: the try block.  [ok |-> FALSE]
\* stands for the ValueError raised for a missing, undecodable or misshapen
\* token; otherwise keys are the context's keys with both entries recomputed
\* from the decoded path.
resolve_keys(root, keys, token) ==
  IF token = NoHeader \/ token = <<>> THEN [ok |-> FALSE, keys |-> keys]
  ELSE LET dec == b64decode(token) IN
    IF ~dec.ok THEN [ok |-> FALSE, keys |-> keys]
    ELSE LET sp == split_path(dec.data, 3, 3) IN
      IF ~sp.ok THEN [ok |-> FALSE, keys |-> keys]
      ELSE LET cont_key_path == join(sep, << sp.segs[1], sp.segs[2] >>) IN
        [ok |-> TRUE,
         keys |-> DictPut(DictPut(keys, "container", create_key(root, cont_key_path)),
                          "object", create_key(root, dec.data))]

\* error_if_need_keys, lines 110-119: whether it raises
\* HTTPUnprocessableEntity for the response captured.  (No line of the
\* module calls it: the call at line 162 is commented out.)
error_if_need_keys(r) == r.crypto_meta

\* hasattr(TrivialKeyMasterContext, name) for the method names the model
\* sends.
HasAttr(name) ==
  name \in {"PUT", "POST", "GET", "HEAD", "_init_keys", "_handle_post_or_put",
            "_handle_get_or_head", "error_if_need_keys",
            "provide_keys_get_or_head", "fetch_crypto_keys"}

\* ------------------------------------------------------------------------
\* Requests and downstream responses the model draws from
\* ------------------------------------------------------------------------

Version == Str(<< "v", "1" >>)

Accounts == { Str(<< "a" >>) }

Containers == { Str(<< "c" >>), Str(<< "d" >>) }

\* Object names: every non-empty string of "/" and "o" up to MaxObjLen bytes.
Objects == UNION { [1..n -> {sep[1], Ord("o")}] : n \in 1..MaxObjLen }

\* Paths __call__ cannot split into version and account.
InvalidPaths ==
  { <<>>, sep \o Version, sep \o Version \o sep,
    Version \o sep \o Str(<< "a" >>), sep \o sep \o Str(<< "a" >>) }

AccountPaths ==
  UNION { { sep \o Version \o sep \o a,
            sep \o Version \o sep \o a \o sep,
            sep \o Version \o sep \o a \o sep \o sep \o Str(<< "o" >>) }
          : a \in Accounts }

ContainerPaths ==
  UNION { { sep \o Version \o sep \o a \o sep \o c,
            sep \o Version \o sep \o a \o sep \o c \o sep }
          : a \in Accounts, c \in Containers }

ObjectPaths ==
  { sep \o Version \o sep \o a \o sep \o c \o sep \o o
    : a \in Accounts, c \in Containers, o \in Objects }

ReqPaths == InvalidPaths \cup AccountPaths \cup ContainerPaths \cup ObjectPaths

\* REQUEST_METHOD values: the four handled verbs, a verb the context has no
\* handler for, and two names of other attributes of the context class.
Methods ==
  { "PUT", "POST", "GET", "HEAD", "DELETE",
    "_handle_post_or_put", "provide_keys_get_or_head" }

\* A crypto-id value that is on the request as it arrives.
StaleToken == b64encode(Str(<< "/", "a", "/", "d", "/", "o" >>))

\* Decoded contents of the tokens an object that no PUT of the behaviour
\* wrote may carry: well-formed paths and misshapen ones.
TokenPaths ==
  { Str(<< "/", "a", "/", "c", "/", "o" >>),
    Str(<< "/", "a", "/", "d", "/", "o" >>),
    Str(<< "/", "a", "/", "c", "/", "/", "o" >>),
    Str(<< "/", "a", "/", "c", "/", "o", "/", "o" >>),
    Str(<< "/", "o" >>),
    Str(<< "/", "a", "/", "c" >>),
    Str(<< "/", "a", "/", "c", "/" >>),
    Str(<< "a", "/", "c", "/", "o" >>),
    Str(<< "/", "/", "c", "/", "o" >>),
    Str(<< "/", "a", "/", "/", "o" >>) }

\* A token cut short (its padding is wrong) and one with a character outside
\* the alphabet in front (which the decoder skips).
BrokenTokens ==
  { SubSeq(b64encode(Str(<< "/", "a", "/", "c", "/", "o" >>)), 1, 7),
    << "!" >> \o b64encode(Str(<< "/", "a", "/", "c", "/", "o" >>)) }

TokenSet == { NoHeader, <<>> } \cup { b64encode(p) : p \in TokenPaths } \cup BrokenTokens

NoResp == [status |-> 0, crypto_id |-> NoHeader, crypto_meta |-> FALSE, body |-> "none"]

\* Responses to a read: the object's persisted crypto-id (or none), with or
\* without crypto-meta sysmeta; a body that is ciphertext iff it has some.
ReadResponses(tokens) ==
  { [status |-> st, crypto_id |-> t, crypto_meta |-> cm,
     body |-> IF cm THEN "ciphertext" ELSE "plaintext"]
    : st \in {200, 404}, t \in tokens, cm \in BOOLEAN }

\* Responses that carry no crypto sysmeta (to a write, or of the wrapped app
\* called directly).
PlainResponses ==
  { [status |-> st, crypto_id |-> NoHeader, crypto_meta |-> FALSE, body |-> "empty"]
    : st \in {201, 404} }

NoEnv ==
  [method |-> "none", path |-> None, override |-> FALSE, crypto_id |-> NoHeader,
   fetch_crypto_keys |-> FALSE]

NoPut == [path |-> None, crypto_id |-> NoHeader, keys |-> {}]

\* ------------------------------------------------------------------------
\* The state machine
\* ------------------------------------------------------------------------

\* TrivialKeyMaster.__init__: the root key is set, no request is in flight.
Init ==
  /\ root_key = Str(<< "s", "e", "c", "r", "e", "t" >>)
  /\ pc = [r \in Reqs |-> "idle"]
  /\ env = [r \in Reqs |-> NoEnv]
  /\ arrived = [r \in Reqs |-> NoEnv]
  /\ ctx = [r \in Reqs |-> NoCtx]
  /\ resp = [r \in Reqs |-> NoResp]
  /\ seen = [r \in Reqs |-> NoEnv]
  /\ out = [r \in Reqs |-> NoResp]
  /\ log = [r \in Reqs |-> <<>>]
  /\ stored = NoPut

\* A request reaches __call__ on a free slot.  The environment may already
\* record an override and may already carry a crypto-id header.
Arrive(r) ==
  /\ pc[r] = "idle"
  /\ \E m \in Methods, p \in ReqPaths, ov \in BOOLEAN, id \in {NoHeader, StaleToken} :
       LET e == [method |-> m, path |-> p, override |-> ov, crypto_id |-> id,
                 fetch_crypto_keys |-> FALSE]
       IN /\ env' = [env EXCEPT ![r] = e]
          /\ arrived' = [arrived EXCEPT ![r] = e]
  /\ pc' = [pc EXCEPT ![r] = "call"]
  /\ UNCHANGED << root_key, ctx, resp, seen, out, log, stored >>

\* __call__, lines 183-199, up to the handler call: a path that does not
\* split, or a method the context class has no attribute for, goes straight
\* to the wrapped app; otherwise the context is constructed.
Dispatch(r) ==
  /\ pc[r] = "call"
  /\ LET parts == split_path(env[r].path, 2, 4) IN
       IF parts.ok /\ HasAttr(env[r].method)
         THEN /\ ctx' = [ctx EXCEPT ![r] =
                           init_keys(root_key, parts.segs[2], parts.segs[3], parts.segs[4])]
              /\ pc' = [pc EXCEPT ![r] = "handler"]
              /\ log' = [log EXCEPT ![r] = Append(@, "init_keys")]
         ELSE /\ pc' = [pc EXCEPT ![r] = "pass"]
              /\ UNCHANGED << ctx, log >>
  /\ UNCHANGED << root_key, env, arrived, resp, seen, out, stored >>

\* The wrapped app called directly (lines 188 and 199): its response goes to
\* the caller's start_response.
PassThrough(r) ==
  /\ pc[r] = "pass"
  /\ \E rs \in PlainResponses :
       /\ resp' = [resp EXCEPT ![r] = rs]
       /\ out' = [out EXCEPT ![r] = rs]
  /\ seen' = [seen EXCEPT ![r] = env[r]]
  /\ log' = [log EXCEPT ![r] = Append(@, "app")]
  /\ pc' = [pc EXCEPT ![r] = "done"]
  /\ UNCHANGED << root_key, env, arrived, ctx, stored >>

\* PUT, lines 77-89, up to the call of _handle_post_or_put.
PUT(r) ==
  /\ pc[r] = "handler"
  /\ env[r].method = "PUT"
  /\ env' = [env EXCEPT ![r].crypto_id = put_crypto_id(ctx[r], @)]
  /\ log' = [log EXCEPT ![r] = IF Truthy(ctx[r].obj_path)
                                 THEN Append(@, "set_crypto_id") ELSE @]
  /\ pc' = [pc EXCEPT ![r] = "install"]
  /\ UNCHANGED << root_key, arrived, ctx, resp, seen, out, stored >>

\* POST, lines 91-92.
POST(r) ==
  /\ pc[r] = "handler"
  /\ env[r].method = "POST"
  /\ pc' = [pc EXCEPT ![r] = "install"]
  /\ UNCHANGED << root_key, env, arrived, ctx, resp, seen, out, log, stored >>

\* GET that installs the callback before the downstream call, as the write
\* handlers do: the keys are recomputed while the callback is already
\* installed.
GETInstallFirst(r) ==
  /\ pc[r] = "handler"
  /\ env[r].method = "GET"
  /\ env' = [env EXCEPT ![r].fetch_crypto_keys = TRUE]
  /\ pc' = [pc EXCEPT ![r] = "read"]
  /\ UNCHANGED << root_key, arrived, ctx, resp, seen, out, log, stored >>

\* GET, lines 94-95.
GET(r) ==
  /\ pc[r] = "handler"
  /\ env[r].method = "GET"
  /\ pc' = [pc EXCEPT ![r] = "read"]
  /\ UNCHANGED << root_key, env, arrived, ctx, resp, seen, out, log, stored >>

\* HEAD, lines 97-98.
HEAD(r) ==
  /\ pc[r] = "handler"
  /\ env[r].method = "HEAD"
  /\ pc' = [pc EXCEPT ![r] = "read"]
  /\ UNCHANGED << root_key, env, arrived, ctx, resp, seen, out, log, stored >>

\* Line 194 for a method name that is another attribute of the context
\* class: getattr(km_context, req.method)(req, start_response).  A handler
\* helper with that signature runs; any other attribute is called with the
\* wrong number of arguments and raises TypeError, which line 195 does not
\* catch.
CallAttr(r) ==
  /\ pc[r] = "handler"
  /\ env[r].method \notin {"PUT", "POST", "GET", "HEAD"}
  /\ IF env[r].method = "_handle_post_or_put"
       THEN pc' = [pc EXCEPT ![r] = "install"] /\ UNCHANGED log
     ELSE IF env[r].method = "_handle_get_or_head"
       THEN pc' = [pc EXCEPT ![r] = "read"] /\ UNCHANGED log
     ELSE /\ pc' = [pc EXCEPT ![r] = "raised"]
          /\ log' = [log EXCEPT ![r] = Append(@, "TypeError")]
  /\ UNCHANGED << root_key, env, arrived, ctx, resp, seen, out, stored >>

\* _handle_post_or_put, line 71: the callback is installed.
InstallCallback(r) ==
  /\ pc[r] = "install"
  /\ env' = [env EXCEPT ![r].fetch_crypto_keys = TRUE]
  /\ log' = [log EXCEPT ![r] = Append(@, "install")]
  /\ pc' = [pc EXCEPT ![r] = "write_app"]
  /\ UNCHANGED << root_key, arrived, ctx, resp, seen, out, stored >>

\* _handle_post_or_put, line 72: _app_call.  Downstream stores the object of
\* a successful object PUT with the crypto-id header of the request and
\* under the keys the callback returns.
WriteAppCall(r) ==
  /\ pc[r] = "write_app"
  /\ \E rs \in PlainResponses :
       /\ resp' = [resp EXCEPT ![r] = rs]
       /\ stored' = IF /\ env[r].method = "PUT"
                       /\ Truthy(ctx[r].obj)
                       /\ Truthy(ctx[r].container)
                       /\ rs.status = 201
                      THEN [path |-> env[r].path, crypto_id |-> env[r].crypto_id,
                            keys |-> ctx[r].keys]
                      ELSE stored
  /\ seen' = [seen EXCEPT ![r] = env[r]]
  /\ log' = [log EXCEPT ![r] = Append(@, "app")]
  /\ pc' = [pc EXCEPT ![r] = "write_start"]
  /\ UNCHANGED << root_key, env, arrived, ctx, out >>

\* _handle_get_or_head, line 101: _app_call.  The response carries the
\* crypto-id the object was stored with: the one of the object PUT of this
\* behaviour if there was one (whatever path it is read at now), otherwise
\* any of TokenSet.
ReadAppCall(r) ==
  /\ pc[r] = "read"
  /\ \E rs \in ReadResponses(IF stored = NoPut THEN TokenSet ELSE {stored.crypto_id}) :
       resp' = [resp EXCEPT ![r] = rs]
  /\ seen' = [seen EXCEPT ![r] = env[r]]
  /\ log' = [log EXCEPT ![r] = Append(@, "app")]
  /\ pc' = [pc EXCEPT ![r] = "provide_keys"]
  /\ UNCHANGED << root_key, env, arrived, ctx, out, stored >>

\* The response HTTPUnprocessableEntity makes when line 196 calls it.
Unprocessable ==
  [status |-> 422, crypto_id |-> NoHeader, crypto_meta |-> FALSE,
   body |-> "Cannot get necessary keys"]

\* ResolveToken with line 162 in force: after the override is marked,
\* error_if_need_keys raises for a response with crypto-meta, and line 196
\* answers with the 422.
ResolveTokenChecked(r) ==
  /\ pc[r] = "provide_keys"
  /\ LET go  == Truthy(ctx[r].obj_path)
         res == resolve_keys(root_key, ctx[r].keys, resp[r].crypto_id)
     IN /\ ctx' = [ctx EXCEPT ![r].keys = IF go THEN res.keys ELSE @]
        /\ env' = [env EXCEPT ![r].override = IF go /\ ~res.ok THEN TRUE ELSE @]
        /\ IF go /\ ~res.ok /\ error_if_need_keys(resp[r])
             THEN /\ out' = [out EXCEPT ![r] = Unprocessable]
                  /\ log' = [log EXCEPT ![r] = Append(Append(@, "malformed"), "start_response")]
                  /\ pc' = [pc EXCEPT ![r] = "done"]
             ELSE /\ out' = out
                  /\ log' = [log EXCEPT ![r] =
                               IF go THEN Append(@, IF res.ok THEN "resolved" ELSE "malformed")
                               ELSE @]
                  /\ pc' = [pc EXCEPT ![r] = "supply"]
  /\ UNCHANGED << root_key, arrived, resp, seen, stored >>

\* ResolveToken that calls downstream once more after a malformed token.
ResolveTokenRetry(r) ==
  /\ pc[r] = "provide_keys"
  /\ LET go  == Truthy(ctx[r].obj_path)
         res == resolve_keys(root_key, ctx[r].keys, resp[r].crypto_id)
     IN /\ ctx' = [ctx EXCEPT ![r].keys = IF go THEN res.keys ELSE @]
        /\ env' = [env EXCEPT ![r].override = IF go /\ ~res.ok THEN TRUE ELSE @]
        /\ log' = [log EXCEPT ![r] =
                     IF go THEN Append(@, IF res.ok THEN "resolved" ELSE "malformed")
                     ELSE @]
        /\ pc' = [pc EXCEPT ![r] = IF go /\ ~res.ok /\ Len(log[r]) < 4
                                     THEN "read" ELSE "supply"]
  /\ UNCHANGED << root_key, arrived, resp, seen, out, stored >>

\* ResolveToken with the keys kept in one dict that every context refers to
\* (a class attribute instead of the instance attribute of line 52): the
\* keys resolved for one request are the keys of every request in flight.
ResolveTokenSharedKeys(r) ==
  /\ pc[r] = "provide_keys"
  /\ IF Truthy(ctx[r].obj_path)
       THEN LET res == resolve_keys(root_key, ctx[r].keys, resp[r].crypto_id) IN
            /\ ctx' = [q \in Reqs |->
                         IF ctx[q] = NoCtx THEN ctx[q]
                         ELSE [ctx[q] EXCEPT !.keys = res.keys]]
            /\ env' = [env EXCEPT ![r].override = IF res.ok THEN @ ELSE TRUE]
            /\ log' = [log EXCEPT ![r] =
                         Append(@, IF res.ok THEN "resolved" ELSE "malformed")]
       ELSE UNCHANGED << ctx, env, log >>
  /\ pc' = [pc EXCEPT ![r] = "supply"]
  /\ UNCHANGED << root_key, arrived, resp, seen, out, stored >>

\* ResolveToken without the test of line 125: the token of the response is
\* resolved whatever the depth of the target.
ResolveTokenAnyDepth(r) ==
  /\ pc[r] = "provide_keys"
  /\ LET res == resolve_keys(root_key, ctx[r].keys, resp[r].crypto_id) IN
       /\ ctx' = [ctx EXCEPT ![r].keys = res.keys]
       /\ env' = [env EXCEPT ![r].override = IF res.ok THEN @ ELSE TRUE]
       /\ log' = [log EXCEPT ![r] =
                    Append(@, IF res.ok THEN "resolved" ELSE "malformed")]
  /\ pc' = [pc EXCEPT ![r] = "supply"]
  /\ UNCHANGED << root_key, arrived, resp, seen, out, stored >>

\* provide_keys_get_or_head, lines 125-162: for an object target the token
\* of the response is resolved; a ValueError marks the override.
ResolveToken(r) ==
  /\ pc[r] = "provide_keys"
  /\ IF Truthy(ctx[r].obj_path)
       THEN LET res == resolve_keys(root_key, ctx[r].keys, resp[r].crypto_id) IN
            /\ ctx' = [ctx EXCEPT ![r].keys = res.keys]
            /\ env' = [env EXCEPT ![r].override = IF res.ok THEN @ ELSE TRUE]
            /\ log' = [log EXCEPT ![r] =
                         Append(@, IF res.ok THEN "resolved" ELSE "malformed")]
       ELSE UNCHANGED << ctx, env, log >>
  /\ pc' = [pc EXCEPT ![r] = "supply"]
  /\ UNCHANGED << root_key, arrived, resp, seen, out, stored >>

\* SupplyKeys without the test of line 164.
SupplyKeysAlways(r) ==
  /\ pc[r] = "supply"
  /\ env' = [env EXCEPT ![r].fetch_crypto_keys = TRUE]
  /\ log' = [log EXCEPT ![r] = Append(@, "supplied")]
  /\ pc' = [pc EXCEPT ![r] = "read_start"]
  /\ UNCHANGED << root_key, arrived, ctx, resp, seen, out, stored >>

\* provide_keys_get_or_head, lines 164-166: the callback is installed unless
\* the environment records an override.
SupplyKeys(r) ==
  /\ pc[r] = "supply"
  /\ env' = [env EXCEPT ![r].fetch_crypto_keys = IF env[r].override THEN @ ELSE TRUE]
  /\ log' = [log EXCEPT ![r] =
               Append(@, IF env[r].override THEN "withheld" ELSE "supplied")]
  /\ pc' = [pc EXCEPT ![r] = "read_start"]
  /\ UNCHANGED << root_key, arrived, ctx, resp, seen, out, stored >>

\* StartResponse that answers a request marked as an override with the 422
\* instead of the captured response.
StartResponseRewrite(r) ==
  /\ pc[r] \in {"write_start", "read_start"}
  /\ out' = [out EXCEPT ![r] = IF env[r].override THEN Unprocessable ELSE resp[r]]
  /\ log' = [log EXCEPT ![r] = Append(@, "start_response")]
  /\ pc' = [pc EXCEPT ![r] = "done"]
  /\ UNCHANGED << root_key, env, arrived, ctx, resp, seen, stored >>

\* Lines 73-75 and 103-105: start_response with the captured status and
\* headers, the captured body returned.
StartResponse(r) ==
  /\ pc[r] \in {"write_start", "read_start"}
  /\ out' = [out EXCEPT ![r] = resp[r]]
  /\ log' = [log EXCEPT ![r] = Append(@, "start_response")]
  /\ pc' = [pc EXCEPT ![r] = "done"]
  /\ UNCHANGED << root_key, env, arrived, ctx, resp, seen, stored >>

\* The request is over: __call__ has returned (or raised) and the context,
\* which nothing else refers to, is gone.
Complete(r) ==
  /\ pc[r] \in {"done", "raised"}
  /\ pc' = [pc EXCEPT ![r] = "idle"]
  /\ env' = [env EXCEPT ![r] = NoEnv]
  /\ arrived' = [arrived EXCEPT ![r] = NoEnv]
  /\ ctx' = [ctx EXCEPT ![r] = NoCtx]
  /\ resp' = [resp EXCEPT ![r] = NoResp]
  /\ seen' = [seen EXCEPT ![r] = NoEnv]
  /\ out' = [out EXCEPT ![r] = NoResp]
  /\ log' = [log EXCEPT ![r] = <<>>]
  /\ UNCHANGED << root_key, stored >>

Step(r) ==
  \/ Arrive(r)
  \/ Dispatch(r)
  \/ PassThrough(r)
  \/ PUT(r)
  \/ POST(r)
  \/ GET(r)
  \/ HEAD(r)
  \/ CallAttr(r)
  \/ InstallCallback(r)
  \/ WriteAppCall(r)
  \/ ReadAppCall(r)
  \/ ResolveToken(r)
  \/ SupplyKeys(r)
  \/ StartResponse(r)
  \/ Complete(r)

Next == \E r \in Serial : Step(r)

Spec == Init /\ [][Next]_vars

\* ------------------------------------------------------------------------
\* Two requests in flight at once
\* ------------------------------------------------------------------------

\* The request paths of the concurrent requests: a container, an object, and
\* an object of another container whose name begins with the separator.
ConcurrentPaths ==
  { sep \o Version \o sep \o Str(<< "a", "/", "c" >>),
    sep \o Version \o sep \o Str(<< "a", "/", "c", "/", "o" >>),
    sep \o Version \o sep \o Str(<< "a", "/", "d", "/", "/" >>) }

\* The object downstream holds when the concurrent requests begin: stored by
\* an earlier object PUT to /v1/a/c/o.
EarlierPut ==
  LET c == init_keys(Str(<< "s", "e", "c", "r", "e", "t" >>),
                     Str(<< "a" >>), Str(<< "c" >>), Str(<< "o" >>))
  IN [path |-> sep \o Version \o sep \o Str(<< "a", "/", "c", "/", "o" >>),
      crypto_id |-> put_crypto_id(c, NoHeader),
      keys |-> c.keys]

\* TrivialKeyMaster.__init__, downstream holding an object already.
InitConcurrent ==
  /\ root_key = Str(<< "s", "e", "c", "r", "e", "t" >>)
  /\ pc = [r \in Reqs |-> "idle"]
  /\ env = [r \in Reqs |-> NoEnv]
  /\ arrived = [r \in Reqs |-> NoEnv]
  /\ ctx = [r \in Reqs |-> NoCtx]
  /\ resp = [r \in Reqs |-> NoResp]
  /\ seen = [r \in Reqs |-> NoEnv]
  /\ out = [r \in Reqs |-> NoResp]
  /\ log = [r \in Reqs |-> <<>>]
  /\ stored = EarlierPut

\* A request reaches __call__ on a free slot, whatever the other slot is
\* doing.  It arrives with no override recorded and no crypto-id header.
ArriveConcurrent(r) ==
  /\ pc[r] = "idle"
  /\ \E m \in Methods, p \in ConcurrentPaths :
       LET e == [method |-> m, path |-> p, override |-> FALSE, crypto_id |-> NoHeader,
                 fetch_crypto_keys |-> FALSE]
       IN /\ env' = [env EXCEPT ![r] = e]
          /\ arrived' = [arrived EXCEPT ![r] = e]
  /\ pc' = [pc EXCEPT ![r] = "call"]
  /\ UNCHANGED << root_key, ctx, resp, seen, out, log, stored >>

StepConcurrent(r) ==
  \/ ArriveConcurrent(r)
  \/ Dispatch(r)
  \/ PassThrough(r)
  \/ PUT(r)
  \/ POST(r)
  \/ GET(r)
  \/ HEAD(r)
  \/ CallAttr(r)
  \/ InstallCallback(r)
  \/ WriteAppCall(r)
  \/ ReadAppCall(r)
  \/ ResolveToken(r)
  \/ SupplyKeys(r)
  \/ StartResponse(r)
  \/ Complete(r)

\* Any slot steps next: every interleaving of the steps of two requests.
NextConcurrent == \E r \in Reqs : StepConcurrent(r)

SpecConcurrent == InitConcurrent /\ [][NextConcurrent]_vars

\* ------------------------------------------------------------------------
\* A downstream application that may raise
\* ------------------------------------------------------------------------

\* The response an HTTPException raised downstream makes when line 196
\* calls it.
ErrorResponse ==
  [status |-> 503, crypto_id |-> NoHeader, crypto_meta |-> FALSE, body |-> "error"]

\* AppRaises without lines 195-196: an HTTPException leaves __call__ like
\* any other exception.
AppRaisesUncaught(r) ==
  /\ pc[r] \in {"write_app", "read"}
  /\ \E kind \in {"HTTPException", "Exception"} :
       log' = [log EXCEPT ![r] = Append(@, kind)]
  /\ pc' = [pc EXCEPT ![r] = "raised"]
  /\ seen' = [seen EXCEPT ![r] = env[r]]
  /\ UNCHANGED << root_key, env, arrived, ctx, resp, out, stored >>

\* _app_call at line 72 or 101 raises instead of returning, and the handler
\* lets the exception through to line 194.  An HTTPException is caught at
\* line 195 and answered as the response it is (line 196); any other
\* exception leaves __call__.
AppRaises(r) ==
  /\ pc[r] \in {"write_app", "read"}
  /\ \E kind \in {"HTTPException", "Exception"} :
       IF kind = "HTTPException"
         THEN /\ out' = [out EXCEPT ![r] = ErrorResponse]
              /\ log' = [log EXCEPT ![r] = Append(Append(@, kind), "start_response")]
              /\ pc' = [pc EXCEPT ![r] = "done"]
         ELSE /\ out' = out
              /\ log' = [log EXCEPT ![r] = Append(@, kind)]
              /\ pc' = [pc EXCEPT ![r] = "raised"]
  /\ seen' = [seen EXCEPT ![r] = env[r]]
  /\ UNCHANGED << root_key, env, arrived, ctx, resp, stored >>

StepFaulty(r) ==
  \/ Arrive(r)
  \/ Dispatch(r)
  \/ PassThrough(r)
  \/ PUT(r)
  \/ POST(r)
  \/ GET(r)
  \/ HEAD(r)
  \/ CallAttr(r)
  \/ InstallCallback(r)
  \/ WriteAppCall(r)
  \/ ReadAppCall(r)
  \/ AppRaises(r)
  \/ ResolveToken(r)
  \/ SupplyKeys(r)
  \/ StartResponse(r)
  \/ Complete(r)

NextFaulty == \E r \in Serial : StepFaulty(r)

SpecFaulty == Init /\ [][NextFaulty]_vars

\* ------------------------------------------------------------------------
\* Vocabulary of the properties
\* ------------------------------------------------------------------------

\* The (account, container, object) readings of a rooted path of exactly
\* three segments: account and container non-empty and free of the
\* separator, the object the non-empty rest.  Empty for any other string.
Segments3(p) ==
  { << SubSeq(p, 2, i - 1), SubSeq(p, i + 1, j - 1), SubSeq(p, j + 1, Len(p)) >> :
      << i, j >> \in { ij \in (1..Len(p)) \X (1..Len(p)) :
                         /\ p[1] = sep[1]
                         /\ 2 < ij[1] /\ ij[1] + 1 < ij[2] /\ ij[2] < Len(p)
                         /\ p[ij[1]] = sep[1] /\ p[ij[2]] = sep[1]
                         /\ \A k \in 2..(ij[2] - 1) : k # ij[1] => p[k] # sep[1] } }

WellFormed3(p) == Segments3(p) # {}

\* The rooted path of segments, each appended after a separator.
PathOf(segs) ==
  IF Len(segs) = 2 THEN sep \o segs[1] \o sep \o segs[2]
  ELSE sep \o segs[1] \o sep \o segs[2] \o sep \o segs[3]

\* The KeySet derived from the three-segment path A.
KeySetOf(root, A) ==
  LET s == CHOOSE t \in Segments3(A) : TRUE IN
  { << "container", create_key(root, PathOf(<< s[1], s[2] >>)) >>,
    << "object", create_key(root, PathOf(s)) >> }

\* A token that is missing, empty, not decodable, or decodes to something
\* that is not three path segments.
Malformed(token) ==
  \/ token = NoHeader
  \/ token = <<>>
  \/ LET dec == b64decode(token) IN ~dec.ok \/ ~WellFormed3(dec.data)

\* The request in slot r is a GET or HEAD / a PUT or POST as it arrived.
IsRead(r) == arrived[r].method \in {"GET", "HEAD"}

IsWrite(r) == arrived[r].method \in {"PUT", "POST"}

\* The segments after the version of the path the request in slot r arrived
\* with, and whether they name an object (container and object non-empty).
Target(r) == split_path(arrived[r].path, 2, 4)

ObjectTarget(r) ==
  LET t == Target(r) IN
  /\ t.ok
  /\ Truthy(t.segs[3])
  /\ Truthy(t.segs[4])

\* The request's own path B = /account/container/object.
OwnPath(r) == PathOf(SubSeq(Target(r).segs, 2, 4))

\* The token of the response is the base64 encoding of the well-formed path
\* it decodes to.
EncodesWellFormed(token) ==
  /\ token # NoHeader
  /\ LET dec == b64decode(token) IN
       /\ dec.ok
       /\ token = b64encode(dec.data)
       /\ WellFormed3(dec.data)

\* ------------------------------------------------------------------------
\* Properties
\* ------------------------------------------------------------------------

\* C1 (copy semantics): once provide_keys_get_or_head has run for an object
\* GET or HEAD on path B that arrived without an override and whose
\* response carries the base64 encoding of a well-formed three-segment path
\* A different from B, the callback is installed and the KeySet is exactly
\* the container and object keys derived from A.
C1_CopySemantics ==
  \A r \in Reqs :
    ( /\ pc[r] \in {"read_start", "done"}
      /\ IsRead(r) /\ ObjectTarget(r)
      /\ ~arrived[r].override
      /\ EncodesWellFormed(resp[r].crypto_id)
      /\ b64decode(resp[r].crypto_id).data # OwnPath(r) )
    => /\ env[r].fetch_crypto_keys
       /\ ctx[r].keys = KeySetOf(root_key, b64decode(resp[r].crypto_id).data)

\* C1 witness: an object stored by a PUT at one path is read at another
\* path (another container), its token carried over, and the read is done.
C1_Witness ==
  \E r \in Reqs :
    /\ pc[r] = "done" /\ IsRead(r) /\ ObjectTarget(r)
    /\ ~arrived[r].override
    /\ stored # NoPut
    /\ resp[r].crypto_id = stored.crypto_id
    /\ EncodesWellFormed(resp[r].crypto_id)
    /\ b64decode(resp[r].crypto_id).data # OwnPath(r)
    /\ Target(r).segs[3] # split_path(stored.path, 2, 4).segs[3]
    /\ env[r].fetch_crypto_keys

\* C2 (fallback safety): when an object GET or HEAD is done and the token of
\* its response was missing, empty, undecodable or not three segments, the
\* callback is not installed and the request is marked as an override.
C2_FallbackSafety ==
  \A r \in Reqs :
    ( /\ pc[r] = "done"
      /\ IsRead(r) /\ ObjectTarget(r)
      /\ Malformed(resp[r].crypto_id) )
    => /\ ~env[r].fetch_crypto_keys
       /\ env[r].override

\* C2 witness: a done object GET that arrived without an override and whose
\* token decodes, but to two segments only.
C2_Witness ==
  \E r \in Reqs :
    /\ pc[r] = "done" /\ IsRead(r) /\ ObjectTarget(r)
    /\ ~arrived[r].override
    /\ resp[r].crypto_id # NoHeader
    /\ b64decode(resp[r].crypto_id).ok
    /\ Len(b64decode(resp[r].crypto_id).data) > 0
    /\ ~WellFormed3(b64decode(resp[r].crypto_id).data)
    /\ env[r].override

\* C3 (PUT-then-GET round trip), as claimed: when a GET or HEAD that arrived
\* without an override is done on the path of the object stored by the
\* object PUT, and its response carried the token that PUT stored, the token
\* decodes to the account, container and object of the path and the KeySet
\* supplied equals the KeySet of the PUT.  The code breaks this for object
\* names that begin with the separator.
C3_RoundTrip ==
  \A r \in Reqs :
    ( /\ pc[r] = "done" /\ IsRead(r)
      /\ ~arrived[r].override
      /\ stored # NoPut
      /\ arrived[r].path = stored.path
      /\ resp[r].crypto_id = stored.crypto_id )
    => LET dec == b64decode(resp[r].crypto_id) IN
       /\ dec.ok
       /\ Segments3(dec.data) = { SubSeq(Target(r).segs, 2, 4) }
       /\ env[r].fetch_crypto_keys
       /\ ctx[r].keys = stored.keys

\* C4 (key-requirement violation), as claimed: a done object GET or HEAD
\* whose token was missing or malformed and whose response carried crypto-meta
\* has answered the caller with a 422.
C4_Unprocessable ==
  \A r \in Reqs :
    ( /\ pc[r] = "done" /\ IsRead(r) /\ ObjectTarget(r)
      /\ Malformed(resp[r].crypto_id)
      /\ resp[r].crypto_meta )
    => out[r].status = 422

\* C4, amended: in that case the caller is answered with the downstream
\* response as it is, not with a 422, although error_if_need_keys would raise
\* for it; the request ends marked as an override, without the callback.
C4_NoKeyCheck ==
  \A r \in Reqs :
    ( /\ pc[r] = "done" /\ IsRead(r) /\ ObjectTarget(r)
      /\ Malformed(resp[r].crypto_id)
      /\ resp[r].crypto_meta )
    => /\ error_if_need_keys(resp[r])
       /\ out[r] = resp[r]
       /\ out[r].status # 422
       /\ env[r].override
       /\ ~env[r].fetch_crypto_keys

\* C4 witness: a done object GET whose response had no token but had
\* crypto-meta, answered with downstream's 200.
C4_Witness ==
  \E r \in Reqs :
    /\ pc[r] = "done" /\ IsRead(r) /\ ObjectTarget(r)
    /\ resp[r].crypto_id = NoHeader
    /\ resp[r].crypto_meta
    /\ out[r].status = 200

\* C5 (object PUT derives from its own path), as claimed: once an object PUT
\* to /a/c/o has been forwarded, downstream was called with the token
\* base64(/a/c/o) and with the callback, and the KeySet is the container key
\* of /a/c and the object key of /a/c/o.  The code breaks this for object
\* names that begin with the separator.
C5_PutOwnPath ==
  \A r \in Reqs :
    ( /\ pc[r] \in {"write_start", "done"}
      /\ arrived[r].method = "PUT" /\ ObjectTarget(r) )
    => /\ seen[r].crypto_id = b64encode(OwnPath(r))
       /\ seen[r].fetch_crypto_keys
       /\ ctx[r].keys = KeySetOf(root_key, OwnPath(r))

\* C6 (KeySet shape by depth): right after the context is constructed, and
\* in every later state of a PUT or POST, the KeySet has no entry for an
\* account target (container absent or empty), the entry container alone
\* for a container target (object absent or empty), and the entries
\* container and object for an object target, each once.
C6_KeySetShape ==
  \A r \in Reqs :
    ( /\ ctx[r] # NoCtx
      /\ (pc[r] = "handler" \/ IsWrite(r)) )
    => /\ DictKeys(ctx[r].keys) =
            IF ~Truthy(Target(r).segs[3]) THEN {}
            ELSE IF ~Truthy(Target(r).segs[4]) THEN {"container"}
            ELSE {"container", "object"}
       /\ Cardinality(ctx[r].keys) = Cardinality(DictKeys(ctx[r].keys))

\* C6 witness: a done POST on a path with an empty container segment and an
\* object segment, its KeySet empty.
C6_Witness ==
  \E r \in Reqs :
    /\ pc[r] = "done" /\ arrived[r].method = "POST"
    /\ ctx[r] # NoCtx
    /\ Target(r).segs[3] = <<>>
    /\ Truthy(Target(r).segs[4])
    /\ ctx[r].keys = {}

\* C7 (pass-through), as claimed: a request with any method other than PUT,
\* POST, GET and HEAD, or with a path that does not split, ends without an
\* error, downstream having been called with the environment as it arrived,
\* the environment still as it arrived (no callback, no override, no
\* crypto-id added) and the caller answered by downstream.  The code breaks
\* this for methods that name another attribute of the context class.
C7_PassThrough ==
  \A r \in Reqs :
    ( /\ pc[r] \in {"done", "raised"}
      /\ (arrived[r].method \notin {"PUT", "POST", "GET", "HEAD"} \/ ~Target(r).ok) )
    => /\ pc[r] = "done"
       /\ seen[r] = arrived[r]
       /\ env[r] = arrived[r]
       /\ out[r] = resp[r]

\* C8 (override excludes key supply), as claimed: in every state of a PUT,
\* POST, GET or HEAD, an environment that records the override does not hold
\* the callback.
C8_OverrideExcludesSupply ==
  \A r \in Reqs :
    (arrived[r].method \in {"PUT", "POST", "GET", "HEAD"} /\ env[r].override)
    => ~env[r].fetch_crypto_keys

\* C8, amended: in every state of a GET or HEAD, an environment that records
\* the override (since arrival, or marked by provide_keys_get_or_head) does
\* not hold the callback.  (PUT and POST install it whatever the override.)
C8_ReadOverride ==
  \A r \in Reqs :
    (IsRead(r) /\ env[r].override) => ~env[r].fetch_crypto_keys

\* C8 witness: a done object GET that arrived with the override recorded and
\* whose token resolved; the callback is not installed.
C8_Witness ==
  \E r \in Reqs :
    /\ pc[r] = "done" /\ IsRead(r) /\ ObjectTarget(r)
    /\ arrived[r].override
    /\ ~Malformed(resp[r].crypto_id)
    /\ ~env[r].fetch_crypto_keys

\* C9 (malformed token recovered locally): an object GET or HEAD whose
\* response had a missing or malformed token does not raise, and once done
\* the caller has been answered with the status, headers and body of the
\* downstream response.
C9_MalformedNotSurfaced ==
  \A r \in Reqs :
    ( /\ pc[r] \in {"supply", "read_start", "done", "raised"}
      /\ IsRead(r) /\ ObjectTarget(r)
      /\ Malformed(resp[r].crypto_id) )
    => /\ pc[r] # "raised"
       /\ (pc[r] = "done" => out[r] = resp[r])

\* C9 witness: a done object HEAD whose token had wrong padding, answered
\* with downstream's 404.
C9_Witness ==
  \E r \in Reqs :
    /\ pc[r] = "done" /\ arrived[r].method = "HEAD" /\ ObjectTarget(r)
    /\ resp[r].crypto_id \notin {NoHeader, <<>>}
    /\ ~b64decode(resp[r].crypto_id).ok
    /\ out[r].status = 404
    /\ out[r] = resp[r]

IsPrefix(s, t) == Len(s) <= Len(t) /\ SubSeq(t, 1, Len(s)) = s

\* The runs of a read in which the token is resolved once, between the
\* downstream call and the supply step.
RunsWithResolution ==
  { << "init_keys", "app", x, y, "start_response" >> :
      x \in {"resolved", "malformed"}, y \in {"supplied", "withheld"} }
  \ { << "init_keys", "app", "malformed", "supplied", "start_response" >> }

\* The runs of a read in which the token is not looked at.
RunsWithoutResolution ==
  { << "init_keys", "app", y, "start_response" >> : y \in {"supplied", "withheld"} }

\* C10 (read-path ordering), as claimed: every done GET or HEAD that got a
\* context has called downstream once, then resolved the token once, then
\* supplied or withheld the keys once, then started the response.
C10_ResolveOnceEveryRead ==
  \A r \in Reqs :
    (IsRead(r) /\ ctx[r] # NoCtx /\ pc[r] = "done") => log[r] \in RunsWithResolution

\* C10, amended: at every moment of a GET or HEAD that got a context the
\* steps taken are the beginning of: downstream called once, the token
\* resolved once for an object target and not at all for an account or
\* container target, the keys supplied or withheld once, the response
\* started; a done request has taken all of them.
C10_ReadOrder ==
  \A r \in Reqs :
    (IsRead(r) /\ ctx[r] # NoCtx)
    => LET runs == IF ObjectTarget(r) THEN RunsWithResolution
                   ELSE RunsWithoutResolution
       IN /\ \E full \in runs : IsPrefix(log[r], full)
          /\ (pc[r] = "done" => log[r] \in runs)

\* C10 witness: a done object GET whose token was malformed: downstream was
\* called once, the keys withheld, the response started.
C10_Witness ==
  \E r \in Reqs :
    /\ pc[r] = "done" /\ IsRead(r) /\ ObjectTarget(r)
    /\ log[r] = << "init_keys", "app", "malformed", "withheld", "start_response" >>

\* The request in slot r has taken the step named.
Took(r, step) == \E i \in 1..Len(log[r]) : log[r][i] = step

\* The default KeySet of the request in slot r: the one __init__ derives
\* from the request's own path segments.
DefaultKeys(r) ==
  init_keys(root_key, Target(r).segs[2], Target(r).segs[3], Target(r).segs[4]).keys

\* While the callback stays installed the KeySet it returns is the same
\* after every step as before it.
KeysFinal ==
  \A r \in Reqs :
    (env[r].fetch_crypto_keys /\ env'[r].fetch_crypto_keys)
    => ctx'[r].keys = ctx[r].keys

\* A PUT or POST that has called downstream called it with the callback
\* installed, and an object PUT with the token of its object path set.
WriteInstalledBeforeApp ==
  \A r \in Reqs :
    (IsWrite(r) /\ ctx[r] # NoCtx /\ pc[r] \in {"write_start", "done", "raised"})
    => /\ seen[r].fetch_crypto_keys
       /\ Took(r, "app")
       /\ Took(r, "install")
       /\ (arrived[r].method = "PUT" /\ ObjectTarget(r))
            => /\ seen[r].crypto_id = b64encode(ctx[r].obj_path)
               /\ env[r].crypto_id = seen[r].crypto_id

\* An object GET or HEAD that holds the callback has resolved the token
\* before, and both entries of its KeySet are the ones of the resolved path.
ObjectReadInstalledAfterRecompute ==
  \A r \in Reqs :
    (env[r].fetch_crypto_keys /\ IsRead(r) /\ ObjectTarget(r))
    => /\ Took(r, "resolved")
       /\ ~Malformed(resp[r].crypto_id)
       /\ ctx[r].keys = KeySetOf(root_key, b64decode(resp[r].crypto_id).data)

\* C11 (keys are final before they can be fetched), as claimed: while the
\* callback is installed the KeySet never changes; PUT and POST install the
\* callback (an object PUT the token too) before downstream is called; and
\* every GET or HEAD that holds the callback has recomputed both KeySet
\* entries from the resolved path before.
C11_InstalledAfterRecomputeEveryRead ==
  /\ [][KeysFinal]_vars
  /\ [](/\ WriteInstalledBeforeApp
        /\ \A r \in Reqs :
             (IsRead(r) /\ env[r].fetch_crypto_keys)
             => /\ Took(r, "resolved")
                /\ DictKeys(ctx[r].keys) = {"container", "object"})

\* C11, amended: while the callback is installed the KeySet never changes;
\* PUT and POST install the callback (an object PUT the token too) before
\* downstream is called; an object GET or HEAD installs it only after both
\* KeySet entries have been recomputed from the resolved path, and an account
\* or container GET or HEAD installs it with the default KeySet, nothing
\* having been resolved.
C11_KeysFinalOnceInstalled ==
  /\ [][KeysFinal]_vars
  /\ [](/\ WriteInstalledBeforeApp
        /\ ObjectReadInstalledAfterRecompute
        /\ \A r \in Reqs :
             (env[r].fetch_crypto_keys /\ IsRead(r) /\ ctx[r] # NoCtx /\ ~ObjectTarget(r))
             => /\ ~Took(r, "resolved") /\ ~Took(r, "malformed")
                /\ ctx[r].keys = DefaultKeys(r))

\* C11 witness: a done object GET that holds the callback, its KeySet the
\* one of the token's path and not the default one of its own path.
C11_Witness ==
  \E r \in Reqs :
    /\ pc[r] = "done" /\ IsRead(r) /\ ObjectTarget(r)
    /\ env[r].fetch_crypto_keys
    /\ Took(r, "resolved")
    /\ ctx[r].keys # DefaultKeys(r)

\* The path string passed to create_key for the entry named of a KeySet.
KeyId(keys, name) == (CHOOSE e \in keys : e[1] = name)[2][3]

\* The (account, container, object) segments of a request path.
SegmentsOf(path) == SubSeq(split_path(path, 2, 4).segs, 2, 4)

\* C12 (distinct targets get distinct derivation inputs), as claimed: for an
\* object-level request handled after an object PUT was stored, if the
\* (account, container, object) segments of the two differ, the paths passed
\* to create_key for their default object keys differ, and the path passed
\* for the container key of either is not the path passed for the object key
\* of the other.  The code breaks this for object names that begin with the
\* separator.
C12_DistinctInputs ==
  \A r \in Reqs :
    (ctx[r] # NoCtx /\ ObjectTarget(r) /\ stored # NoPut)
    => /\ SegmentsOf(arrived[r].path) # SegmentsOf(stored.path)
            => ctx[r].obj_path # KeyId(stored.keys, "object")
       /\ ctx[r].container_path # KeyId(stored.keys, "object")
       /\ ctx[r].obj_path # KeyId(stored.keys, "container")
       /\ ctx[r].obj_path # ctx[r].container_path

\* What __call__ leaves behind for a request handled alone, as a function of
\* the environment it arrived with and the response downstream gave it: the
\* crypto-id header of the request, whether the callback is installed,
\* whether the override is marked, and the KeySet of its context.
HandledAlone(root, e, rs) ==
  LET parts == split_path(e.path, 2, 4)
      left  == [crypto_id |-> e.crypto_id, fetch_crypto_keys |-> FALSE,
                override |-> e.override, keys |-> {}]
  IN IF ~(parts.ok /\ HasAttr(e.method)) THEN left
     ELSE LET c == init_keys(root, parts.segs[2], parts.segs[3], parts.segs[4]) IN
       IF e.method \in {"PUT", "POST", "_handle_post_or_put"} THEN
         [left EXCEPT !.crypto_id = IF e.method = "PUT" THEN put_crypto_id(c, @) ELSE @,
                      !.fetch_crypto_keys = TRUE,
                      !.keys = c.keys]
       ELSE IF e.method \in {"GET", "HEAD", "_handle_get_or_head"} THEN
         LET res == IF Truthy(c.obj_path) THEN resolve_keys(root, c.keys, rs.crypto_id)
                    ELSE [ok |-> TRUE, keys |-> c.keys]
             ov  == e.override \/ ~res.ok
         IN [left EXCEPT !.override = ov, !.fetch_crypto_keys = ~ov, !.keys = res.keys]
       ELSE [left EXCEPT !.keys = c.keys]

\* The same four things as they are in slot r.
OutcomeOf(r) ==
  [crypto_id |-> env[r].crypto_id, fetch_crypto_keys |-> env[r].fetch_crypto_keys,
   override |-> env[r].override, keys |-> ctx[r].keys]

\* What belongs to the request in slot r alone.
Own(r) == << env[r], arrived[r], ctx[r], resp[r], seen[r], out[r], log[r] >>

\* A step is the step of one request: it moves one slot, and what belongs
\* to a slot changes only when that slot moves; the root key is not written.
StepOfOne ==
  /\ root_key' = root_key
  /\ \A r, q \in Reqs : (pc'[r] # pc[r] /\ pc'[q] # pc[q]) => r = q
  /\ \A r \in Reqs : Own(r)' # Own(r) => pc'[r] # pc[r]

\* C13 (request isolation under concurrency): in every interleaving of the
\* steps of two requests, a request that has ended has the token, callback,
\* override mark and KeySet it has when handled alone with the same
\* downstream response; no step of one request changes what belongs to the
\* other, and the root key stays as constructed.
C13_Isolation ==
  /\ [][StepOfOne]_vars
  /\ [](\A r \in Reqs :
          pc[r] \in {"done", "raised"}
          => OutcomeOf(r) = HandledAlone(Str(<< "s", "e", "c", "r", "e", "t" >>),
                                         arrived[r], resp[r]))

\* C13 witness: an object GET and an object PUT to another path have both
\* ended, having been in flight together: the GET got its response before
\* the PUT was stored, and holds the callback with the keys of the object
\* stored before, not those of the PUT.
C13_Witness ==
  \E r, q \in Reqs :
    /\ r # q
    /\ pc[r] = "done" /\ IsRead(r) /\ ObjectTarget(r)
    /\ pc[q] = "done" /\ arrived[q].method = "PUT" /\ ObjectTarget(q)
    /\ stored.path = arrived[q].path
    /\ resp[q].status = 201
    /\ resp[r].crypto_id # stored.crypto_id
    /\ env[r].fetch_crypto_keys
    /\ env[q].fetch_crypto_keys
    /\ ctx[r].keys # ctx[q].keys

\* The request in slot r is one of the four verbs and got a context.
Handled(r) ==
  arrived[r].method \in {"PUT", "POST", "GET", "HEAD"} /\ ctx[r] # NoCtx

\* An error was raised while the request in slot r was handled.
ErrorRaised(r) ==
  Took(r, "HTTPException") \/ Took(r, "Exception") \/ Took(r, "TypeError")

\* C14 (dispatcher error translation), as claimed: no error leaves __call__
\* for a handled request, and a handled request during which any error was
\* raised, HTTP-typed or not, has ended with a failure response started
\* towards the caller.
C14_AllErrorsTranslated ==
  \A r \in Reqs :
    Handled(r)
    => /\ pc[r] # "raised"
       /\ ErrorRaised(r) => (pc[r] = "done" /\ out[r].status >= 400)

\* C14, amended: an HTTPException raised while the handler of a handled
\* request runs is answered to the caller as the failure response it is and
\* does not leave __call__; an error that is not HTTP-typed leaves __call__
\* and no response is started.
C14_HTTPErrorsTranslated ==
  \A r \in Reqs :
    Handled(r)
    => /\ Took(r, "HTTPException")
            => /\ pc[r] = "done"
               /\ out[r] = ErrorResponse
               /\ out[r].status >= 400
               /\ log[r][Len(log[r])] = "start_response"
       /\ Took(r, "Exception") => (pc[r] = "raised" /\ out[r] = NoResp)
       /\ pc[r] = "raised" => Took(r, "Exception")

\* C14 witness: an object GET during which downstream raised an
\* HTTPException has ended with the 503 started towards the caller, no
\* callback installed.
C14_Witness ==
  \E r \in Reqs :
    /\ pc[r] = "done" /\ arrived[r].method = "GET" /\ ObjectTarget(r)
    /\ ctx[r] # NoCtx
    /\ Took(r, "HTTPException")
    /\ out[r].status = 503
    /\ ~env[r].fetch_crypto_keys

\* The request in slot r is an object-level PUT.
ObjectPut(r) == arrived[r].method = "PUT" /\ ObjectTarget(r)

\* C15 (token is written only by object-level PUT), as claimed: in every
\* state of a POST, GET or HEAD at any depth and of an account-level or
\* container-level PUT the crypto-id header of the request is the one it
\* arrived with; once the PUT handler has run for an object-level PUT the
\* header is the base64 encoding of the request's own path /a/c/o, whatever
\* it arrived with.  The code breaks the second part for object names that
\* begin with the separator.
C15_TokenOnlyByObjectPut ==
  \A r \in Reqs :
    arrived[r].method \in {"PUT", "POST", "GET", "HEAD"}
    => /\ ~ObjectPut(r) => env[r].crypto_id = arrived[r].crypto_id
       /\ (ObjectPut(r) /\ ctx[r] # NoCtx /\ pc[r] # "handler")
            => env[r].crypto_id = b64encode(OwnPath(r))

\* C16 (non-object reads ignore the token): once provide_keys_get_or_head
\* has run for a GET or HEAD on an account or container target that arrived
\* without an override, the callback is installed, the request is not marked
\* as an override, and the KeySet is the default one of the request's own
\* path (empty for an account, the container key of /a/c for a container),
\* whatever crypto-id the response carried.
C16_NonObjectReadDefault ==
  \A r \in Reqs :
    ( /\ pc[r] \in {"read_start", "done"}
      /\ IsRead(r) /\ ctx[r] # NoCtx /\ ~ObjectTarget(r)
      /\ ~arrived[r].override )
    => /\ env[r].fetch_crypto_keys
       /\ ~env[r].override
       /\ ctx[r].keys =
            IF ~Truthy(Target(r).segs[3]) THEN {}
            ELSE {<< "container",
                     create_key(root_key,
                                PathOf(<< Target(r).segs[2], Target(r).segs[3] >>)) >>}

\* C16 witness: a done container GET whose response carried a token that
\* does not decode, and a crypto-meta header; the callback is installed and
\* the KeySet holds the container key alone.
C16_Witness ==
  \E r \in Reqs :
    /\ pc[r] = "done" /\ arrived[r].method = "GET"
    /\ ctx[r] # NoCtx
    /\ Truthy(Target(r).segs[3]) /\ ~Truthy(Target(r).segs[4])
    /\ ~arrived[r].override
    /\ resp[r].crypto_id \notin {NoHeader, <<>>}
    /\ ~b64decode(resp[r].crypto_id).ok
    /\ resp[r].crypto_meta
    /\ env[r].fetch_crypto_keys
    /\ DictKeys(ctx[r].keys) = {"container"}

\* The entry named of a KeySet.
Entry(keys, name) == CHOOSE e \in keys : e[1] = name

\* C17 (no mixed KeySet at completion): when an object GET or HEAD is done,
\* its KeySet is the default one the context was constructed with if the
\* token of the response was missing or malformed, and otherwise the one
\* whose container and object entries are both derived from the token's
\* path; it never holds the container entry of one of the two and the
\* object entry of the other where the two differ.
C17_NoMixedKeySet ==
  \A r \in Reqs :
    (pc[r] = "done" /\ IsRead(r) /\ ObjectTarget(r) /\ ctx[r] # NoCtx)
    => LET token    == resp[r].crypto_id
           default  == DefaultKeys(r)
           resolved == KeySetOf(root_key, b64decode(token).data)
       IN /\ DictKeys(ctx[r].keys) = {"container", "object"}
          /\ Malformed(token) => ctx[r].keys = default
          /\ ~Malformed(token) => ctx[r].keys = resolved
          /\ \/ /\ Entry(ctx[r].keys, "container") = Entry(default, "container")
                /\ Entry(ctx[r].keys, "object") = Entry(default, "object")
             \/ /\ ~Malformed(token)
                /\ Entry(ctx[r].keys, "container") = Entry(resolved, "container")
                /\ Entry(ctx[r].keys, "object") = Entry(resolved, "object")

\* C17 witness: a done object GET whose token names an object of another
\* container: its KeySet differs from the default one in both entries and is
\* the one of the token's path.
C17_Witness ==
  \E r \in Reqs :
    /\ pc[r] = "done" /\ IsRead(r) /\ ObjectTarget(r)
    /\ ~Malformed(resp[r].crypto_id)
    /\ Entry(ctx[r].keys, "container") # Entry(DefaultKeys(r), "container")
    /\ Entry(ctx[r].keys, "object") # Entry(DefaultKeys(r), "object")
    /\ ctx[r].keys = KeySetOf(root_key, b64decode(resp[r].crypto_id).data)

====
